---- MODULE Spec2Model ----
(***************************************************************************)
(* VirtualMachine objects (src/virtual_machine.py) configured as           *)
(* SimulationController.initialize (src/simulation_controller.py) does.    *)
(* Each machine runs two threads, receive (the Listener) and run (the      *)
(* Ticker), which share logical_clock, message_queue and the log file      *)
(* without any lock.  Every access of a thread to shared state is one step *)
(* of the model, so a read of logical_clock and the later write of the     *)
(* value computed from it are two steps, as they are two bytecodes in      *)
(* CPython.                                                                *)
(*                                                                         *)
(* The machines in `machines` are modelled step by step.  The other        *)
(* endpoints of the fleet are environment: a connect() to one of them      *)
(* succeeds or is refused, and what they (or any other client) send        *)
(* arrives through client_connect.                                         *)
(***************************************************************************)
EXTENDS Integers, Sequences, FiniteSets, TLC

\* ------------------------------------------------------------- bounds
\* Tick iterations begun plus client connections made, in one run.
MaxEvents == 2

\* ---------------------------------------------------- program constants
BasePort == 5000
DefaultInternalProb == 70
DrawMax == 100

\* Fleet sizes and internal-event probabilities (in hundredths) explored.
FleetSizes == {2, 3}
InternalProbs == {DefaultInternalProb, 100}
\* What a client outside the fleet may write on a connection: nothing, bytes
\* that are no JSON document, or a well-formed message.
ClientPayloads ==
    {<<"empty">>, <<"garbage">>, <<"json", 5>>, <<"json", 2>>, <<"json", 0>>}
\* Every internal-event probability that is a whole number of hundredths.
ProbabilityGrid == 0..DrawMax
\* A probability under which a tick sends to all peers or to none: the send
\* threshold is 2, and a third of it, truncated, is 0.
BroadcastProb == 98

VARIABLES
    num_machines,         \* SimulationController.num_machines
    machines,             \* ids of the machines modelled step by step
    internal_event_prob,  \* hundredths: 70 is 0.7
    port,                 \* machine id -> bound port
    peers,                \* machine id -> sequence of peer ports
    running,              \* machine id -> threading.Event is set
    sock,                 \* machine id -> "bound" | "listening" | "closed"
    backlog,              \* machine id -> connections waiting for accept()
    logical_clock,        \* machine id -> self.logical_clock
    message_queue,        \* machine id -> queue.Queue contents, oldest first
    log_file,             \* machine id -> lines appended to logs/machine_<id>.log
    receive_thread,       \* machine id -> the Listener's position and locals
    run_thread,           \* machine id -> the Ticker's position and locals
    caller,               \* machine id -> position of the start()/stop() caller
    stdout,               \* machine id -> Logger.log_info lines printed
    arrived,              \* history: values the Listener has put, in order
    dequeued,             \* history: values the Ticker has got, in order
    ticks,                \* tick iterations begun so far
    clients,              \* client connections made so far
    budget                \* what one run may do: events, ticks, clients, starts, stops,
                          \* and the payloads its clients write

vars == <<num_machines, machines, internal_event_prob, port, peers, running, sock,
          backlog, logical_clock, message_queue, log_file, receive_thread,
          run_thread, caller, stdout, arrived, dequeued, ticks, clients, budget>>

config == <<num_machines, machines, internal_event_prob, port, peers, budget>>

Max(a, b) == IF a >= b THEN a ELSE b

\* ------------------------------------------------- SimulationController
\* Mutant: ports counted from base_port + 1.
MachinePort_OneBased(i, base_port) == base_port + i

\* machine_configs of initialize(): machine i+1 gets base_port + i.
MachinePort(i, base_port) == base_port + (i - 1)

RECURSIVE PeerAddresses(_, _, _, _)
\* The inner loop of initialize(): the ports of machines j..n except i, in
\* ascending j.
PeerAddresses(i, j, n, base_port) ==
    IF j > n THEN <<>>
    ELSE IF i # j
         THEN <<MachinePort(j, base_port)>> \o PeerAddresses(i, j + 1, n, base_port)
         ELSE PeerAddresses(i, j + 1, n, base_port)

\* The modelled machine bound to port p, when there is one.
Modelled(p) == \E m \in machines : port[m] = p
MachineAt(p) == CHOOSE m \in machines : port[m] = p

\* ------------------------------------------------------------ wire
\* json.dumps(message).encode(): the bytes of a one-field JSON object.
Dumps(message) == <<"json", message.logical_clock>>
\* json.loads(data) succeeds on a JSON object only.
Decodable(data) == data[1] = "json"
Loads(data) == [logical_clock |-> data[2]]

\* ------------------------------------------------------------ Logger
LogRecord(event, queue_length, clock) ==
    [event |-> event, queue_length |-> queue_length, logical_clock |-> clock]
LogConnection(status, dest, message) ==
    [event |-> "CONN_LOG", status |-> status, dest |-> dest, message |-> message]

\* ------------------------------------------------------------ threads
\* client_socket is the local of receive(): "unset" before the first accept(),
\* then the accepted connection, "open" or "closed".
IdleListener == [pc |-> "init", data |-> <<>>, received_time |-> 0, reg |-> 0,
                 qsize |-> 0, clock_arg |-> 0, client_socket |-> "unset"]
IdleTicker == [pc |-> "init", branch |-> "", received_time |-> 0, reg |-> 0,
               message |-> 0, targets |-> <<>>, qsize |-> 0, clock_arg |-> 0]

AtL(m, pc) == receive_thread[m].pc = pc
AtT(m, pc) == run_thread[m].pc = pc

\* The state after initialize() for a fleet of n machines, of which those in
\* ms are modelled, with internal-event probability p, in a run of budget b.
Initialized(n, ms, p, b) ==
    /\ budget = b
    /\ num_machines = n
    /\ machines = ms
    /\ internal_event_prob = p
    /\ port = [m \in 1..n |-> MachinePort(m, BasePort)]
    /\ peers = [m \in 1..n |-> PeerAddresses(m, 1, n, BasePort)]
    /\ running = [m \in machines |-> FALSE]
    /\ sock = [m \in machines |-> "bound"]
    /\ backlog = [m \in machines |-> <<>>]
    /\ logical_clock = [m \in machines |-> 0]
    /\ message_queue = [m \in machines |-> <<>>]
    /\ log_file = [m \in machines |-> <<>>]
    /\ receive_thread = [m \in machines |-> IdleListener]
    /\ run_thread = [m \in machines |-> IdleTicker]
    /\ caller = [m \in machines |-> "created"]
    /\ stdout = [m \in machines |-> <<>>]
    /\ arrived = [m \in machines |-> <<>>]
    /\ dequeued = [m \in machines |-> <<>>]
    /\ ticks = 0
    /\ clients = 0

\* A run of MaxEvents ticks and client connections that the caller starts
\* once and may stop, and then stop a second time.
GeneralBudget ==
    [events |-> MaxEvents, ticks |-> MaxEvents, clients |-> MaxEvents,
     starts |-> 1, stops |-> 2,
     payloads |-> {<<"empty">>, <<"garbage">>, <<"json", 5>>}]
\* A run that is never stopped, with two client connections, so that the
\* inbox holds several entries.
InboxBudget ==
    [events |-> MaxEvents + 1, ticks |-> MaxEvents - 1, clients |-> 2,
     starts |-> 1, stops |-> 0, payloads |-> {<<"json", 5>>, <<"json", 2>>}]
\* A run without clients in which the caller calls start() again on the
\* machine it has stopped.
RestartBudget ==
    [events |-> MaxEvents, ticks |-> MaxEvents, clients |-> 0,
     starts |-> 2, stops |-> 1, payloads |-> {}]

\* A single tick and nothing else, to see what one draw can select.
DrawBudget ==
    [events |-> 1, ticks |-> 1, clients |-> 0, starts |-> 1, stops |-> 0,
     payloads |-> {}]
\* Two ticks, among which one message of a peer still at clock 0 arrives.
BroadcastBudget ==
    [events |-> 3, ticks |-> 2, clients |-> 1, starts |-> 1, stops |-> 0,
     payloads |-> {<<"json", 0>>}]
\* A single tick, for a fleet all of whose machines are modelled.
FleetBudget ==
    [events |-> 1, ticks |-> 1, clients |-> 0, starts |-> 1, stops |-> 0,
     payloads |-> {}]

\* One machine of a fleet of two or three, its peers being environment, or
\* the two machines of a fleet of two.
Init ==
    \/ \E n \in FleetSizes, p \in InternalProbs :
           Initialized(n, {1}, p, GeneralBudget)
    \/ Initialized(2, {1}, 100, InboxBudget)
    \/ Initialized(3, {1}, DefaultInternalProb, RestartBudget)
    \/ \E p \in ProbabilityGrid : Initialized(3, {1}, p, DrawBudget)
    \/ Initialized(3, {1}, BroadcastProb, BroadcastBudget)
    \/ Initialized(2, {1, 2}, DefaultInternalProb, FleetBudget)

\* Calls of start() and of stop() that have returned, each leaving its line
\* on stdout.
Starts(m) == Len(SelectSeq(stdout[m], LAMBDA line : line = "Machine started"))
Stops(m) == Len(SelectSeq(stdout[m], LAMBDA line : line = "Machine stopped"))

\* --------------------------------------------------- VirtualMachine.start
\* running.set(), both threads created and started, "Machine started".
\* Nothing in start() looks at an earlier stop(): called on a stopped machine
\* it sets the flag and starts two new threads over the closed socket.
start(m) ==
    /\ caller[m] \in {"created", "stopped"}
    /\ Starts(m) < budget.starts
    /\ running' = [running EXCEPT ![m] = TRUE]
    /\ receive_thread' = [receive_thread EXCEPT ![m].pc = "listen"]
    /\ run_thread' = [run_thread EXCEPT ![m].pc = "loop"]
    /\ stdout' = [stdout EXCEPT ![m] = Append(@, "Machine started")]
    /\ caller' = [caller EXCEPT ![m] = "started"]
    /\ UNCHANGED <<config, sock, backlog, logical_clock, message_queue,
                   log_file, arrived, dequeued, ticks, clients>>

\* ---------------------------------------------------- VirtualMachine.stop
\* Mutant: a stop() that flips the flag instead of clearing it.
stop_clear_flips(m) ==
    /\ caller[m] \in {"started", "stopped"}
    /\ Stops(m) < budget.stops
    /\ running' = [running EXCEPT ![m] = ~@]
    /\ caller' = [caller EXCEPT ![m] = "stop_close"]
    /\ UNCHANGED <<config, sock, backlog, logical_clock, message_queue,
                   log_file, receive_thread, run_thread, stdout, arrived,
                   dequeued, ticks, clients>>

\* Line 103: running.clear(), on a started machine or on one already stopped.
stop_clear(m) ==
    /\ caller[m] \in {"started", "stopped"}
    /\ Stops(m) < budget.stops
    /\ running' = [running EXCEPT ![m] = FALSE]
    /\ caller' = [caller EXCEPT ![m] = "stop_close"]
    /\ UNCHANGED <<config, sock, backlog, logical_clock, message_queue,
                   log_file, receive_thread, run_thread, stdout, arrived,
                   dequeued, ticks, clients>>

\* Line 104: socket.close().  Connections still waiting in the backlog are
\* dropped with the endpoint.
stop_close(m) ==
    /\ caller[m] = "stop_close"
    /\ sock' = [sock EXCEPT ![m] = "closed"]
    /\ backlog' = [backlog EXCEPT ![m] = <<>>]
    /\ caller' = [caller EXCEPT ![m] = "join_receive"]
    /\ UNCHANGED <<config, running, logical_clock, message_queue, log_file,
                   receive_thread, run_thread, stdout, arrived, dequeued,
                   ticks, clients>>

Finished(thread) == thread.pc \in {"done", "crashed"}

\* Lines 105-106: receive_thread.join() returns once the Listener has ended.
stop_join_receive(m) ==
    /\ caller[m] = "join_receive"
    /\ Finished(receive_thread[m])
    /\ caller' = [caller EXCEPT ![m] = "join_run"]
    /\ UNCHANGED <<config, running, sock, backlog, logical_clock,
                   message_queue, log_file, receive_thread, run_thread,
                   stdout, arrived, dequeued, ticks, clients>>

\* Mutant: a stop() that does not wait for the Ticker.
stop_join_run_nowait(m) ==
    /\ caller[m] = "join_run"
    /\ stdout' = [stdout EXCEPT ![m] = Append(@, "Machine stopped")]
    /\ caller' = [caller EXCEPT ![m] = "stopped"]
    /\ UNCHANGED <<config, running, sock, backlog, logical_clock,
                   message_queue, log_file, receive_thread, run_thread,
                   arrived, dequeued, ticks, clients>>

\* Lines 107-109: run_thread.join() returns once the Ticker has ended, then
\* "Machine stopped".
stop_join_run(m) ==
    /\ caller[m] = "join_run"
    /\ Finished(run_thread[m])
    /\ stdout' = [stdout EXCEPT ![m] = Append(@, "Machine stopped")]
    /\ caller' = [caller EXCEPT ![m] = "stopped"]
    /\ UNCHANGED <<config, running, sock, backlog, logical_clock,
                   message_queue, log_file, receive_thread, run_thread,
                   arrived, dequeued, ticks, clients>>

\* ------------------------------------------------- VirtualMachine.receive
\* Line 78: socket.listen(5), outside the try: on a closed socket it raises
\* and the thread ends with the exception.
receive_listen(m) ==
    /\ AtL(m, "listen")
    /\ IF sock[m] = "closed"
       THEN /\ receive_thread' = [receive_thread EXCEPT ![m].pc = "crashed"]
            /\ UNCHANGED sock
       ELSE /\ sock' = [sock EXCEPT ![m] = "listening"]
            /\ receive_thread' = [receive_thread EXCEPT ![m].pc = "loop"]
    /\ UNCHANGED <<config, running, backlog, logical_clock, message_queue,
                   log_file, run_thread, caller, stdout, arrived, dequeued,
                   ticks, clients>>

\* Line 79: while self.running.is_set().
receive_loop(m) ==
    /\ AtL(m, "loop")
    /\ receive_thread' = [receive_thread EXCEPT
                            ![m].pc = IF running[m] THEN "accept" ELSE "done"]
    /\ UNCHANGED <<config, running, sock, backlog, logical_clock,
                   message_queue, log_file, run_thread, caller, stdout,
                   arrived, dequeued, ticks, clients>>

\* Line 81: accept() is entered on the open endpoint and waits in the kernel
\* for a connection.
receive_accept_call(m) ==
    /\ AtL(m, "accept")
    /\ sock[m] = "listening"
    /\ receive_thread' = [receive_thread EXCEPT ![m].pc = "accepting"]
    /\ UNCHANGED <<config, running, sock, backlog, logical_clock,
                   message_queue, log_file, run_thread, caller, stdout,
                   arrived, dequeued, ticks, clients>>

\* Line 81: accept() returns the oldest waiting connection.
receive_accept(m) ==
    /\ AtL(m, "accepting")
    /\ backlog[m] # <<>>
    /\ receive_thread' = [receive_thread EXCEPT ![m].pc = "recv",
                                                ![m].data = Head(backlog[m]),
                                                ![m].client_socket = "open"]
    /\ backlog' = [backlog EXCEPT ![m] = Tail(@)]
    /\ UNCHANGED <<config, running, sock, logical_clock, message_queue,
                   log_file, run_thread, caller, stdout, arrived, dequeued,
                   ticks, clients>>

\* Line 81 entered after close(): accept() raises at once, control goes to
\* line 90.
receive_accept_error(m) ==
    /\ AtL(m, "accept")
    /\ sock[m] = "closed"
    /\ receive_thread' = [receive_thread EXCEPT ![m].pc = "except"]
    /\ UNCHANGED <<config, running, sock, backlog, logical_clock,
                   message_queue, log_file, run_thread, caller, stdout,
                   arrived, dequeued, ticks, clients>>

\* Line 81, close() by the caller while accept() waits.  Whether that ends
\* the wait is the platform's choice: where it does, accept() raises and
\* control goes to line 90; where it does not (Linux), this step never
\* happens and accept() goes on waiting for a connection.
receive_accept_woken(m) ==
    /\ AtL(m, "accepting")
    /\ sock[m] = "closed"
    /\ receive_thread' = [receive_thread EXCEPT ![m].pc = "except"]
    /\ UNCHANGED <<config, running, sock, backlog, logical_clock,
                   message_queue, log_file, run_thread, caller, stdout,
                   arrived, dequeued, ticks, clients>>

\* Lines 82-85 and 89: recv and decode.  No data: close and loop.  Data that
\* json.loads rejects: the exception skips line 89 and the connection stays
\* open.  A message: its
\* logical_clock field becomes received_time.
receive_recv(m) ==
    /\ AtL(m, "recv")
    /\ LET data == receive_thread[m].data IN
       receive_thread' = [receive_thread EXCEPT ![m] =
           IF data[1] = "empty"
           THEN [IdleListener EXCEPT !.pc = "loop", !.client_socket = "closed"]
           ELSE IF ~Decodable(data)
           THEN [IdleListener EXCEPT !.pc = "except", !.client_socket = "open"]
           ELSE [@ EXCEPT !.pc = "receive_read",
                          !.received_time = Loads(data).logical_clock]]
    /\ UNCHANGED <<config, running, sock, backlog, logical_clock,
                   message_queue, log_file, run_thread, caller, stdout,
                   arrived, dequeued, ticks, clients>>

\* Line 86, right-hand side: self.logical_clock is read.
receive_read(m) ==
    /\ AtL(m, "receive_read")
    /\ receive_thread' = [receive_thread EXCEPT ![m].pc = "receive_write",
                                                ![m].reg = logical_clock[m]]
    /\ UNCHANGED <<config, running, sock, backlog, logical_clock,
                   message_queue, log_file, run_thread, caller, stdout,
                   arrived, dequeued, ticks, clients>>

\* Mutant: the receive rule without the maximum.
ApplyReceived_Incoming(clock, incoming) == incoming + 1

\* The receive rule applied to the value read.
ApplyReceived(clock, incoming) == Max(clock, incoming) + 1

\* Mutant: the store of the receive update without the increment.
receive_write_plain(m) ==
    /\ AtL(m, "receive_write")
    /\ logical_clock' = [logical_clock EXCEPT ![m] =
           Max(receive_thread[m].reg, receive_thread[m].received_time)]
    /\ receive_thread' = [receive_thread EXCEPT ![m].pc = "put"]
    /\ UNCHANGED <<config, running, sock, backlog, message_queue, log_file,
                   run_thread, caller, stdout, arrived, dequeued, ticks,
                   clients>>

\* Line 86, the store.
receive_write(m) ==
    /\ AtL(m, "receive_write")
    /\ logical_clock' = [logical_clock EXCEPT ![m] =
           ApplyReceived(receive_thread[m].reg, receive_thread[m].received_time)]
    /\ receive_thread' = [receive_thread EXCEPT ![m].pc = "put"]
    /\ UNCHANGED <<config, running, sock, backlog, message_queue, log_file,
                   run_thread, caller, stdout, arrived, dequeued, ticks,
                   clients>>

\* Mutant: a put at the head, which makes the inbox a stack.
QueuePut_Front(q, item) == <<item>> \o q

\* queue.Queue.put: at the tail.
QueuePut(q, item) == Append(q, item)
\* queue.Queue.get: the head.
QueueFront(q) == Head(q)
QueueRest(q) == Tail(q)

\* Line 87: message_queue.put(received_time).
receive_put(m) ==
    /\ AtL(m, "put")
    /\ message_queue' = [message_queue EXCEPT ![m] =
           QueuePut(@, receive_thread[m].received_time)]
    /\ arrived' = [arrived EXCEPT ![m] = Append(@, receive_thread[m].received_time)]
    /\ receive_thread' = [receive_thread EXCEPT ![m].pc = "log_qsize"]
    /\ UNCHANGED <<config, running, sock, backlog, logical_clock, log_file,
                   run_thread, caller, stdout, dequeued, ticks, clients>>

\* Line 88, first argument: message_queue.qsize().
receive_log_qsize(m) ==
    /\ AtL(m, "log_qsize")
    /\ receive_thread' = [receive_thread EXCEPT ![m].pc = "log_clock",
                                                ![m].qsize = Len(message_queue[m])]
    /\ UNCHANGED <<config, running, sock, backlog, logical_clock,
                   message_queue, log_file, run_thread, caller, stdout,
                   arrived, dequeued, ticks, clients>>

\* Line 88, second argument: self.logical_clock is read again.
receive_log_clock(m) ==
    /\ AtL(m, "log_clock")
    /\ receive_thread' = [receive_thread EXCEPT ![m].pc = "log_append",
                                                ![m].clock_arg = logical_clock[m]]
    /\ UNCHANGED <<config, running, sock, backlog, logical_clock,
                   message_queue, log_file, run_thread, caller, stdout,
                   arrived, dequeued, ticks, clients>>

\* Line 88, the call: the record is appended; line 89 closes the connection.
receive_log_append(m) ==
    /\ AtL(m, "log_append")
    /\ log_file' = [log_file EXCEPT ![m] =
           Append(@, LogRecord("receive", receive_thread[m].qsize,
                               receive_thread[m].clock_arg))]
    /\ receive_thread' = [receive_thread EXCEPT ![m] =
                              [IdleListener EXCEPT !.pc = "loop",
                                                   !.client_socket = "closed"]]
    /\ UNCHANGED <<config, running, sock, backlog, logical_clock,
                   message_queue, run_thread, caller, stdout, arrived,
                   dequeued, ticks, clients>>

\* Mutant: a handler that leaves the loop after reporting.
receive_except_ends(m) ==
    /\ AtL(m, "except")
    /\ stdout' = [stdout EXCEPT ![m] =
           IF running[m] THEN Append(@, "Error receiving message") ELSE @]
    /\ receive_thread' = [receive_thread EXCEPT ![m].pc = "done"]
    /\ UNCHANGED <<config, running, sock, backlog, logical_clock,
                   message_queue, log_file, run_thread, caller, arrived,
                   dequeued, ticks, clients>>

\* Lines 90-92: the handler reports the error only while running is set.
receive_except(m) ==
    /\ AtL(m, "except")
    /\ stdout' = [stdout EXCEPT ![m] =
           IF running[m] THEN Append(@, "Error receiving message") ELSE @]
    /\ receive_thread' = [receive_thread EXCEPT ![m].pc = "loop"]
    /\ UNCHANGED <<config, running, sock, backlog, logical_clock,
                   message_queue, log_file, run_thread, caller, arrived,
                   dequeued, ticks, clients>>

\* ----------------------------------------------------- VirtualMachine.run
\* Mutant: a loop that does not test the flag.
run_loop_unconditional(m) ==
    /\ AtT(m, "loop")
    /\ ticks < budget.ticks
    /\ ticks + clients < budget.events
    /\ ticks' = ticks + 1
    /\ run_thread' = [run_thread EXCEPT ![m].pc = "tick"]
    /\ UNCHANGED <<config, running, sock, backlog, logical_clock,
                   message_queue, log_file, receive_thread, caller, stdout,
                   arrived, dequeued, clients>>

\* Lines 112-113: while self.running.is_set(), then the sleep of one period.
run_loop(m) ==
    /\ AtT(m, "loop")
    /\ IF running[m]
       THEN /\ ticks < budget.ticks
            /\ ticks + clients < budget.events
            /\ ticks' = ticks + 1
            /\ run_thread' = [run_thread EXCEPT ![m].pc = "tick"]
       ELSE /\ run_thread' = [run_thread EXCEPT ![m].pc = "done"]
            /\ UNCHANGED ticks
    /\ UNCHANGED <<config, running, sock, backlog, logical_clock,
                   message_queue, log_file, receive_thread, caller, stdout,
                   arrived, dequeued, clients>>

\* Lines 115-116: the inbox is not empty, get() takes its oldest entry.
run_get(m) ==
    /\ AtT(m, "tick")
    /\ message_queue[m] # <<>>
    /\ run_thread' = [run_thread EXCEPT ![m].pc = "process_read",
                                        ![m].branch = "process",
                                        ![m].received_time = QueueFront(message_queue[m])]
    /\ message_queue' = [message_queue EXCEPT ![m] = QueueRest(@)]
    /\ dequeued' = [dequeued EXCEPT ![m] = Append(@, QueueFront(message_queue[m]))]
    /\ UNCHANGED <<config, running, sock, backlog, logical_clock, log_file,
                   receive_thread, caller, stdout, arrived, ticks, clients>>

\* Line 123: int((1 - p) * 100) in IEEE doubles.  For these hundredths the
\* product falls just short of the integer and int() truncates it.
FloatShort == {34, 55, 56, 67, 68, 78, 79, 80, 81, 89, 90, 91, 92, 93}
\* Mutant: the threshold taken from p instead of 1 - p.
SendThreshold_Complement(p) == p

SendThreshold(p) == (100 - p) - (IF p \in FloatShort THEN 1 ELSE 0)
\* Lines 124-125.
SendToFirstThreshold(p) == SendThreshold(p) \div 3
SendToSecondThreshold(p) == (SendThreshold(p) \div 3) * 2

\* Lines 128-140: the if/elif chain over the draw.
Branch(action, p) ==
    IF action <= SendToFirstThreshold(p) THEN "first"
    ELSE IF action <= SendToSecondThreshold(p) THEN "second"
    ELSE IF action <= SendThreshold(p) THEN "all"
    ELSE "internal"

\* Lines 130, 134, 138: the peers the branch sends to; self.peers[k] of a
\* shorter list raises IndexError, which nothing in run() catches.
IndexError(branch, peer_list) ==
    \/ branch = "first" /\ Len(peer_list) < 1
    \/ branch = "second" /\ Len(peer_list) < 2
Targets(branch, peer_list) ==
    CASE branch = "first" -> <<peer_list[1]>>
      [] branch = "second" -> <<peer_list[2]>>
      [] branch = "all" -> peer_list
      [] OTHER -> <<>>

\* Lines 115, 119-140: the inbox is empty, random.randint(1, 100) picks the
\* branch.
run_draw(m) ==
    /\ AtT(m, "tick")
    /\ message_queue[m] = <<>>
    /\ \E branch \in {Branch(action, internal_event_prob) : action \in 1..DrawMax} :
         run_thread' = [run_thread EXCEPT ![m] =
             IF branch = "internal"
             THEN [@ EXCEPT !.pc = "internal_read", !.branch = branch]
             ELSE IF IndexError(branch, peers[m])
             THEN [IdleTicker EXCEPT !.pc = "crashed"]
             ELSE IF Targets(branch, peers[m]) = <<>>
             THEN [IdleTicker EXCEPT !.pc = "loop"]
             ELSE [@ EXCEPT !.pc = "send_msg", !.branch = branch,
                            !.targets = Targets(branch, peers[m])]]
    /\ UNCHANGED <<config, running, sock, backlog, logical_clock,
                   message_queue, log_file, receive_thread, caller, stdout,
                   arrived, dequeued, ticks, clients>>

\* Line 117, right-hand side: self.logical_clock is read.
run_process_read(m) ==
    /\ AtT(m, "process_read")
    /\ run_thread' = [run_thread EXCEPT ![m].pc = "process_write",
                                        ![m].reg = logical_clock[m]]
    /\ UNCHANGED <<config, running, sock, backlog, logical_clock,
                   message_queue, log_file, receive_thread, caller, stdout,
                   arrived, dequeued, ticks, clients>>

\* Line 117, the store.
run_process_write(m) ==
    /\ AtT(m, "process_write")
    /\ logical_clock' = [logical_clock EXCEPT ![m] =
           ApplyReceived(run_thread[m].reg, run_thread[m].received_time)]
    /\ run_thread' = [run_thread EXCEPT ![m].pc = "log_qsize"]
    /\ UNCHANGED <<config, running, sock, backlog, message_queue, log_file,
                   receive_thread, caller, stdout, arrived, dequeued, ticks,
                   clients>>

\* The local rule applied to the value read.
ApplyLocal(clock) == clock + 1

\* Line 142: self.logical_clock += 1, the load.
run_internal_read(m) ==
    /\ AtT(m, "internal_read")
    /\ run_thread' = [run_thread EXCEPT ![m].pc = "internal_write",
                                        ![m].reg = logical_clock[m]]
    /\ UNCHANGED <<config, running, sock, backlog, logical_clock,
                   message_queue, log_file, receive_thread, caller, stdout,
                   arrived, dequeued, ticks, clients>>

\* Line 142, the store.
run_internal_write(m) ==
    /\ AtT(m, "internal_write")
    /\ logical_clock' = [logical_clock EXCEPT ![m] = ApplyLocal(run_thread[m].reg)]
    /\ run_thread' = [run_thread EXCEPT ![m].pc = "log_qsize"]
    /\ UNCHANGED <<config, running, sock, backlog, message_queue, log_file,
                   receive_thread, caller, stdout, arrived, dequeued, ticks,
                   clients>>

\* Lines 131, 135, 139: the argument {"logical_clock": self.logical_clock}
\* is built before send() is entered.
run_send_msg(m) ==
    /\ AtT(m, "send_msg")
    /\ run_thread' = [run_thread EXCEPT ![m].pc = "send_net",
                                        ![m].message = logical_clock[m]]
    /\ UNCHANGED <<config, running, sock, backlog, logical_clock,
                   message_queue, log_file, receive_thread, caller, stdout,
                   arrived, dequeued, ticks, clients>>

\* After one send(): the next peer of the for loop, or the next iteration.
AfterSend(thread) ==
    IF Tail(thread.targets) = <<>>
    THEN [IdleTicker EXCEPT !.pc = "loop"]
    ELSE [IdleTicker EXCEPT !.pc = "send_msg", !.branch = thread.branch,
                            !.targets = Tail(thread.targets)]

\* connect() to a modelled machine succeeds exactly when it is listening; to
\* any other endpoint it may succeed or fail.
CanConnect(dest) == Modelled(dest) => sock[MachineAt(dest)] = "listening"
CanRefuse(dest) == Modelled(dest) => sock[MachineAt(dest)] # "listening"

\* Lines 68-70: connect and sendall succeed, the bytes wait at the peer.
send_transmit(m) ==
    /\ AtT(m, "send_net")
    /\ LET dest == Head(run_thread[m].targets) IN
       /\ CanConnect(dest)
       /\ backlog' = IF Modelled(dest)
                     THEN [backlog EXCEPT ![MachineAt(dest)] =
                              Append(@, Dumps([logical_clock |-> run_thread[m].message]))]
                     ELSE backlog
    /\ run_thread' = [run_thread EXCEPT ![m].pc = "send_read"]
    /\ UNCHANGED <<config, running, sock, logical_clock, message_queue,
                   log_file, receive_thread, caller, stdout, arrived,
                   dequeued, ticks, clients>>

\* Mutant: the clock is advanced although the send failed.
send_fail_advances(m) ==
    /\ AtT(m, "send_net")
    /\ LET dest == Head(run_thread[m].targets) IN
       /\ CanRefuse(dest)
       /\ log_file' = [log_file EXCEPT ![m] =
              Append(@, LogConnection("Failed", dest, run_thread[m].message))]
    /\ logical_clock' = [logical_clock EXCEPT ![m] = @ + 1]
    /\ run_thread' = [run_thread EXCEPT ![m] = AfterSend(@)]
    /\ UNCHANGED <<config, running, sock, backlog, message_queue,
                   receive_thread, caller, stdout, arrived, dequeued, ticks,
                   clients>>

\* Lines 69-70 and 74-75: connect or sendall raises, the handler appends the
\* failure line.
send_fail(m) ==
    /\ AtT(m, "send_net")
    /\ LET dest == Head(run_thread[m].targets) IN
       /\ CanRefuse(dest)
       /\ log_file' = [log_file EXCEPT ![m] =
              Append(@, LogConnection("Failed", dest, run_thread[m].message))]
    /\ run_thread' = [run_thread EXCEPT ![m] = AfterSend(@)]
    /\ UNCHANGED <<config, running, sock, backlog, logical_clock,
                   message_queue, receive_thread, caller, stdout, arrived,
                   dequeued, ticks, clients>>

\* Line 71: self.logical_clock += 1, the load.
send_read(m) ==
    /\ AtT(m, "send_read")
    /\ run_thread' = [run_thread EXCEPT ![m].pc = "send_write",
                                        ![m].reg = logical_clock[m]]
    /\ UNCHANGED <<config, running, sock, backlog, logical_clock,
                   message_queue, log_file, receive_thread, caller, stdout,
                   arrived, dequeued, ticks, clients>>

\* Line 71, the store.
send_write(m) ==
    /\ AtT(m, "send_write")
    /\ logical_clock' = [logical_clock EXCEPT ![m] = ApplyLocal(run_thread[m].reg)]
    /\ run_thread' = [run_thread EXCEPT ![m].pc = "log_qsize"]
    /\ UNCHANGED <<config, running, sock, backlog, message_queue, log_file,
                   receive_thread, caller, stdout, arrived, dequeued, ticks,
                   clients>>

\* Lines 72, 118, 143, first argument: message_queue.qsize().
run_log_qsize(m) ==
    /\ AtT(m, "log_qsize")
    /\ run_thread' = [run_thread EXCEPT ![m].pc = "log_clock",
                                        ![m].qsize = Len(message_queue[m])]
    /\ UNCHANGED <<config, running, sock, backlog, logical_clock,
                   message_queue, log_file, receive_thread, caller, stdout,
                   arrived, dequeued, ticks, clients>>

\* Lines 72, 118, 143, last argument: self.logical_clock is read again.
run_log_clock(m) ==
    /\ AtT(m, "log_clock")
    /\ run_thread' = [run_thread EXCEPT ![m].pc = "log_append",
                                        ![m].clock_arg = logical_clock[m]]
    /\ UNCHANGED <<config, running, sock, backlog, logical_clock,
                   message_queue, log_file, receive_thread, caller, stdout,
                   arrived, dequeued, ticks, clients>>

\* The event name each branch of run() logs.
EventOf(branch) ==
    CASE branch = "process" -> "process"
      [] branch = "internal" -> "internal"
      [] OTHER -> "send"

\* Lines 118 and 143: the record is appended and the iteration ends.
run_log_append(m) ==
    /\ AtT(m, "log_append")
    /\ run_thread[m].branch \in {"process", "internal"}
    /\ log_file' = [log_file EXCEPT ![m] =
           Append(@, LogRecord(EventOf(run_thread[m].branch),
                               run_thread[m].qsize, run_thread[m].clock_arg))]
    /\ run_thread' = [run_thread EXCEPT ![m] = [IdleTicker EXCEPT !.pc = "loop"]]
    /\ UNCHANGED <<config, running, sock, backlog, logical_clock,
                   message_queue, receive_thread, caller, stdout, arrived,
                   dequeued, ticks, clients>>

\* Lines 72-73: the send record, then the "Sent message" line.
send_log_append(m) ==
    /\ AtT(m, "log_append")
    /\ run_thread[m].branch \in {"first", "second", "all"}
    /\ log_file' = [log_file EXCEPT ![m] =
           @ \o <<LogRecord(EventOf(run_thread[m].branch),
                            run_thread[m].qsize, run_thread[m].clock_arg),
                  LogConnection("Sent", Head(run_thread[m].targets),
                                run_thread[m].message)>>]
    /\ run_thread' = [run_thread EXCEPT ![m] = AfterSend(@)]
    /\ UNCHANGED <<config, running, sock, backlog, logical_clock,
                   message_queue, receive_thread, caller, stdout, arrived,
                   dequeued, ticks, clients>>

\* ------------------------------------------------------------ clients
\* The endpoint takes connections while it listens, and after close() for as
\* long as an accept() entered before the close still waits on it.
Accepting(m) ==
    \/ sock[m] = "listening"
    \/ sock[m] = "closed" /\ AtL(m, "accepting")

\* A client outside the fleet connects to a machine that takes connections
\* and writes a payload.
client_connect(m, payload) ==
    /\ Accepting(m)
    /\ payload \in budget.payloads
    /\ clients < budget.clients
    /\ ticks + clients < budget.events
    /\ clients' = clients + 1
    /\ backlog' = [backlog EXCEPT ![m] = Append(@, payload)]
    /\ UNCHANGED <<config, running, sock, logical_clock, message_queue,
                   log_file, receive_thread, run_thread, caller, stdout,
                   arrived, dequeued, ticks>>

Next ==
    \/ \E m \in machines : start(m)
    \/ \E m \in machines : stop_clear(m)
    \/ \E m \in machines : stop_close(m)
    \/ \E m \in machines : stop_join_receive(m)
    \/ \E m \in machines : stop_join_run(m)
    \/ \E m \in machines : receive_listen(m)
    \/ \E m \in machines : receive_loop(m)
    \/ \E m \in machines : receive_accept_call(m)
    \/ \E m \in machines : receive_accept(m)
    \/ \E m \in machines : receive_accept_error(m)
    \/ \E m \in machines : receive_accept_woken(m)
    \/ \E m \in machines : receive_recv(m)
    \/ \E m \in machines : receive_read(m)
    \/ \E m \in machines : receive_write(m)
    \/ \E m \in machines : receive_put(m)
    \/ \E m \in machines : receive_log_qsize(m)
    \/ \E m \in machines : receive_log_clock(m)
    \/ \E m \in machines : receive_log_append(m)
    \/ \E m \in machines : receive_except(m)
    \/ \E m \in machines : run_loop(m)
    \/ \E m \in machines : run_get(m)
    \/ \E m \in machines : run_draw(m)
    \/ \E m \in machines : run_process_read(m)
    \/ \E m \in machines : run_process_write(m)
    \/ \E m \in machines : run_internal_read(m)
    \/ \E m \in machines : run_internal_write(m)
    \/ \E m \in machines : run_send_msg(m)
    \/ \E m \in machines : send_transmit(m)
    \/ \E m \in machines : send_fail(m)
    \/ \E m \in machines : send_read(m)
    \/ \E m \in machines : send_write(m)
    \/ \E m \in machines : run_log_qsize(m)
    \/ \E m \in machines : run_log_clock(m)
    \/ \E m \in machines : run_log_append(m)
    \/ \E m \in machines : send_log_append(m)
    \/ \E m \in machines, payload \in ClientPayloads : client_connect(m, payload)

Spec == Init /\ [][Next]_vars

\* ---------------------------------------------------------- scheduling
\* The steps the Listener thread takes by itself once it is scheduled.  The
\* end of a wait in accept() by a close() is left out: no platform promises
\* it.
ListenerStep(m) ==
    \/ receive_listen(m)
    \/ receive_loop(m)
    \/ receive_accept_call(m)
    \/ receive_accept(m)
    \/ receive_accept_error(m)
    \/ receive_recv(m)
    \/ receive_read(m)
    \/ receive_write(m)
    \/ receive_put(m)
    \/ receive_log_qsize(m)
    \/ receive_log_clock(m)
    \/ receive_log_append(m)
    \/ receive_except(m)

\* The steps of the Ticker thread; a connect() ends, one way or the other.
TickerStep(m) ==
    \/ run_loop(m)
    \/ run_get(m)
    \/ run_draw(m)
    \/ run_process_read(m)
    \/ run_process_write(m)
    \/ run_internal_read(m)
    \/ run_internal_write(m)
    \/ run_send_msg(m)
    \/ send_transmit(m)
    \/ send_fail(m)
    \/ send_read(m)
    \/ send_write(m)
    \/ run_log_qsize(m)
    \/ run_log_clock(m)
    \/ run_log_append(m)
    \/ send_log_append(m)

\* The steps of a stop() that has been entered.
StopStep(m) ==
    \/ stop_close(m)
    \/ stop_join_receive(m)
    \/ stop_join_run(m)

\* The interpreter and the operating system keep scheduling every thread
\* that can take a step.
FairSpec ==
    /\ Spec
    /\ WF_vars(\E m \in machines : ListenerStep(m))
    /\ WF_vars(\E m \in machines : TickerStep(m))
    /\ WF_vars(\E m \in machines : StopStep(m))

\* ================================================================ claims
Last(seq) == seq[Len(seq)]
EventRecords(m) == SelectSeq(log_file[m], LAMBDA r : r.event # "CONN_LOG")
\* The Listener is not inside the handling of a connection.
ListenerQuiet(m) ==
    receive_thread[m].pc \in {"init", "listen", "loop", "accept", "accepting", "done", "crashed"}

\* C1: the logical clock of a machine is never smaller than a value it held
\* earlier in the run, whatever the interleaving of Listener and Ticker.
C1_ClockNeverDecreases ==
    [][\A m \in machines : logical_clock'[m] >= logical_clock[m]]_vars

\* C2: the Listener's store of a received value c sets the clock to
\* max(old_clock, c) + 1, old_clock being the clock read when the update
\* began; the result exceeds both old_clock and c, with the Ticker running.
C2_ReceiveRule ==
    [][\A m \in machines :
          receive_write(m) =>
              LET old_clock == receive_thread[m].reg
                  c == receive_thread[m].received_time
              IN  /\ logical_clock'[m] = Max(old_clock, c) + 1
                  /\ logical_clock'[m] > old_clock
                  /\ logical_clock'[m] > c]_vars

\* A receive update of value 5 has been stored while the Ticker is in the
\* middle of an update of its own.
C2_Witness ==
    \E m \in machines :
        /\ AtL(m, "put")
        /\ receive_thread[m].received_time = 5
        /\ logical_clock[m] = 6
        /\ run_thread[m].pc \in {"internal_write", "send_write", "process_write"}

\* C3: a send() that succeeds increases the clock by exactly 1, and the
\* message it transmitted carries the clock value just before the increment.
C3_SendIncrement ==
    [][\A m \in machines :
          send_write(m) =>
              /\ logical_clock'[m] = logical_clock[m] + 1
              /\ run_thread[m].message = logical_clock[m]]_vars

\* C4: a send attempt that fails leaves the clock unchanged and appends one
\* connection-failure line and no send record.
C4_FailedSend ==
    [][\A m \in machines :
          send_fail(m) =>
              /\ logical_clock' = logical_clock
              /\ Len(log_file'[m]) = Len(log_file[m]) + 1
              /\ SubSeq(log_file'[m], 1, Len(log_file[m])) = log_file[m]
              /\ Last(log_file'[m]).event = "CONN_LOG"
              /\ Last(log_file'[m]).status = "Failed"
              /\ EventRecords(m)' = EventRecords(m)]_vars

\* A send has just failed: the failure line ends the log, there is no send
\* record, and the clock still has the value the message was built from.
C4_Witness ==
    \E m \in machines :
        /\ log_file[m] # <<>>
        /\ Last(log_file[m]).event = "CONN_LOG"
        /\ Last(log_file[m]).status = "Failed"
        /\ EventRecords(m) = <<>>
        /\ logical_clock[m] = Last(log_file[m]).message
        /\ AtT(m, "loop")

\* C5: a tick with a non-empty inbox removes exactly one entry d, sets the
\* clock to max(clock, d) + 1 and logs one process record that carries the
\* clock this update produced.
C5_ProcessEvent ==
    [][\A m \in machines :
          /\ run_get(m) =>
                 /\ Len(message_queue'[m]) = Len(message_queue[m]) - 1
                 /\ run_thread'[m].received_time = Head(message_queue[m])
          /\ run_process_write(m) =>
                 logical_clock'[m] =
                     Max(run_thread[m].reg, run_thread[m].received_time) + 1
          /\ (run_log_append(m) /\ run_thread[m].branch = "process") =>
                 /\ Last(log_file'[m]).event = "process"
                 /\ Last(log_file'[m]).logical_clock =
                        Max(run_thread[m].reg, run_thread[m].received_time) + 1]_vars

\* C6: inbox entries leave in the order the Listener put them: what has been
\* dequeued, followed by what still waits, is the arrival sequence.
C6_Fifo ==
    \A m \in machines : dequeued[m] \o message_queue[m] = arrived[m]

\* Value 5 arrived before value 2 and was dequeued first, 2 still waiting.
C6_Witness ==
    \E m \in machines :
        /\ arrived[m] = <<5, 2>>
        /\ dequeued[m] = <<5>>
        /\ message_queue[m] = <<2>>

\* The scenario of C7: the machine started at clock 0, the only message that
\* arrived carried 5, and the first tick of the run has drained it; these are
\* the only two clock updates made.
C7_Drained(m) ==
    /\ arrived[m] = <<5>>
    /\ dequeued[m] = <<5>>
    /\ ListenerQuiet(m)
    /\ ticks = 1
    /\ run_thread[m].branch = "process"
    /\ run_thread[m].pc \in {"log_qsize", "log_clock", "log_append"}

\* C7 as claimed: after the Ticker's drain of the message the clock is 6.
C7_ClockSixAfterDrain ==
    \A m \in machines : C7_Drained(m) => logical_clock[m] = 6

\* C7 amended: the receive update already makes the clock 6, and the drain of
\* the message makes it 7.
C7_ClockSevenAfterDrain ==
    \A m \in machines :
        /\ (arrived[m] = <<5>> /\ ListenerQuiet(m) /\ ticks = 0)
               => logical_clock[m] = 6
        /\ C7_Drained(m) => logical_clock[m] = 7

C7_Witness ==
    \E m \in machines : C7_Drained(m) /\ logical_clock[m] = 7

ConnLines(log) == SelectSeq(log, LAMBDA r : r.event = "CONN_LOG")
SendRecords(log) == SelectSeq(log, LAMBDA r : r.event = "send")
\* The Ticker of m is in the second send() of a send-to-all over two peers
\* whose first send() succeeded.
SecondOfBroadcast(m) ==
    /\ run_thread[m].branch = "all"
    /\ Len(peers[m]) = 2
    /\ Len(run_thread[m].targets) = 1
    /\ ConnLines(log_file[m]) # <<>>
    /\ Last(ConnLines(log_file[m])).status = "Sent"

\* C8: a send-to-all over two peers that starts at clock c, both sends
\* succeeding: the first message carries c and the clock becomes c + 1, the
\* second carries c + 1 and the clock becomes c + 2, and two send records are
\* logged, one per peer in peer-list order.
C8_Broadcast ==
    [][\A m \in machines :
          /\ (send_write(m) /\ run_thread[m].branch = "all"
                  /\ Len(run_thread[m].targets) = 2) =>
                 logical_clock'[m] = run_thread[m].message + 1
          /\ (send_write(m) /\ SecondOfBroadcast(m)) =>
                 LET c == Last(ConnLines(log_file[m])).message
                 IN  /\ run_thread[m].message = c + 1
                     /\ logical_clock'[m] = c + 2
          /\ (send_log_append(m) /\ SecondOfBroadcast(m)) =>
                 LET conn == ConnLines(log_file'[m])
                     sent == SendRecords(log_file'[m])
                     c == Last(ConnLines(log_file[m])).message
                 IN  /\ conn[Len(conn) - 1].dest = peers[m][1]
                     /\ conn[Len(conn)].dest = peers[m][2]
                     /\ Len(sent) >= 2
                     /\ sent[Len(sent) - 1].logical_clock = c + 1
                     /\ sent[Len(sent)].logical_clock = c + 2]_vars

\* C9: with internal-event probability 1.0 every draw of a tick with an empty
\* inbox is the internal event, and no send is attempted.
C9_OnlyInternal ==
    [][\A m \in machines :
          internal_event_prob = 100 =>
              /\ run_draw(m) => run_thread'[m].pc = "internal_read"
              /\ ~run_send_msg(m)
              /\ ~send_transmit(m)
              /\ ~send_fail(m)
              /\ run_thread'[m].pc # "crashed"]_vars

C9_Witness ==
    \E m \in machines :
        /\ internal_event_prob = 100
        /\ message_queue[m] = <<>>
        /\ AtT(m, "internal_read")

\* C10: an internal event increases the clock by exactly 1, appends one
\* internal record carrying the clock it produced, and sends nothing.
C10_InternalEvent ==
    [][\A m \in machines :
          /\ run_internal_write(m) => logical_clock'[m] = logical_clock[m] + 1
          /\ (run_log_append(m) /\ run_thread[m].branch = "internal") =>
                 /\ Len(log_file'[m]) = Len(log_file[m]) + 1
                 /\ Last(log_file'[m]).event = "internal"
                 /\ Last(log_file'[m]).logical_clock = run_thread[m].reg + 1
                 /\ backlog' = backlog]_vars

\* C11: a stop() called on a running machine returns, both threads having
\* ended, wherever the Listener and the Ticker are when it is called.
C11_StopReturns ==
    (\E m \in machines : caller[m] = "stop_close")
        ~> (\E m \in machines : caller[m] = "stopped")

\* C12: start() sets the running flag and starts the Listener and the
\* Ticker; at the return of stop() the flag is clear, the listening socket is
\* closed and both threads have ended.
C12_StartStop ==
    [][\A m \in machines :
          /\ start(m) =>
                 /\ running'[m]
                 /\ receive_thread'[m].pc = "listen"
                 /\ run_thread'[m].pc = "loop"
          /\ stop_join_run(m) =>
                 /\ ~running'[m]
                 /\ sock'[m] = "closed"
                 /\ Finished(receive_thread'[m])
                 /\ Finished(run_thread'[m])]_vars

\* stop() has returned on a machine whose Ticker logged an event and whose
\* Listener handled a message before they ended by the cleared flag.
C12_Witness ==
    \E m \in machines :
        /\ caller[m] = "stopped"
        /\ AtL(m, "done")
        /\ AtT(m, "done")
        /\ arrived[m] # <<>>
        /\ \E k \in 1..Len(log_file[m]) : log_file[m][k].event = "internal"

\* A stop() is in progress on a machine an earlier stop() has returned on.
InSecondStop(m) ==
    /\ Stops(m) >= 1
    /\ caller[m] \in {"stop_close", "join_receive", "join_run"}

\* C13: a second stop() on a stopped machine never waits (its next step can
\* always be taken) and leaves the machine stopped: flag clear, socket closed,
\* both threads ended, during the call and after its return.
C13_SecondStop ==
    \A m \in machines :
        /\ InSecondStop(m) =>
               /\ ENABLED StopStep(m)
               /\ ~running[m]
               /\ Finished(receive_thread[m])
               /\ Finished(run_thread[m])
        /\ Stops(m) = 2 =>
               /\ caller[m] = "stopped"
               /\ ~running[m]
               /\ sock[m] = "closed"
               /\ Finished(receive_thread[m])
               /\ Finished(run_thread[m])

\* The second stop() has returned.
C13_Witness ==
    \E m \in machines : Stops(m) = 2 /\ caller[m] = "stopped"

\* C14: once stop() has returned on a machine, the running flag stays clear,
\* neither thread takes a step and the clock keeps its value, whatever is
\* called afterwards, start() included.
C14_NoResumption ==
    [][\A m \in machines :
          Stops(m) >= 1 =>
              /\ ~running'[m]
              /\ receive_thread'[m] = receive_thread[m]
              /\ run_thread'[m] = run_thread[m]
              /\ logical_clock'[m] = logical_clock[m]]_vars

\* C15: the clock updates of the Listener and of the Ticker are atomic with
\* respect to each other: every store writes its update applied to the value
\* the clock holds at the store, so the stores in their order are a serial
\* application of the updates and none is lost.
C15_AtomicUpdates ==
    [][\A m \in machines :
          /\ receive_write(m) =>
                 logical_clock'[m] =
                     ApplyReceived(logical_clock[m], receive_thread[m].received_time)
          /\ run_process_write(m) =>
                 logical_clock'[m] =
                     ApplyReceived(logical_clock[m], run_thread[m].received_time)
          /\ (run_internal_write(m) \/ send_write(m)) =>
                 logical_clock'[m] = ApplyLocal(logical_clock[m])]_vars

\* C16: while the running flag is set the Ticker thread has not ended,
\* whatever the fleet size and whatever the tick drew.
C16_TickerKeepsRunning ==
    \A m \in machines : running[m] => ~Finished(run_thread[m])

\* C17: after initialize() machine i of N is bound to port BasePort + i - 1,
\* and its peer list holds the ports of all the other machines, each once, in
\* ascending order, and not its own.
C17_Topology ==
    \A i \in 1..num_machines :
        /\ port[i] = BasePort + i - 1
        /\ Len(peers[i]) = num_machines - 1
        /\ \A k \in 1..Len(peers[i]) :
               /\ \E j \in (1..num_machines) \ {i} : peers[i][k] = BasePort + j - 1
               /\ peers[i][k] # port[i]
               /\ k > 1 => peers[i][k - 1] < peers[i][k]

\* The middle machine of a fleet of three, started: its peers are the first
\* and the third machine.
C17_Witness ==
    /\ num_machines = 3
    /\ port[2] = 5001
    /\ peers[2] = <<5000, 5002>>
    /\ peers[1] = <<5001, 5002>>
    /\ \E m \in machines : caller[m] = "started"

\* The Listener holds a connection whose bytes json.loads rejects.
Malformed(m) ==
    /\ receive_thread[m].data # <<>>
    /\ receive_thread[m].data[1] # "empty"
    /\ ~Decodable(receive_thread[m].data)

\* C18: the handling of a connection with a malformed payload changes
\* neither the clock nor the inbox, appends no record to the log, and leaves
\* the Listener in its loop, from where it accepts again while running.
C18_MalformedPayload ==
    [][\A m \in machines :
          /\ (receive_recv(m) /\ Malformed(m)) =>
                 /\ receive_thread'[m].pc = "except"
                 /\ logical_clock' = logical_clock
                 /\ message_queue' = message_queue
                 /\ log_file' = log_file
          /\ receive_except(m) =>
                 /\ receive_thread'[m].pc = "loop"
                 /\ logical_clock' = logical_clock
                 /\ message_queue' = message_queue
                 /\ log_file' = log_file
          /\ (receive_loop(m) /\ running[m]) =>
                 receive_thread'[m].pc = "accept"]_vars

\* A malformed payload has been reported and the Listener waits in accept()
\* again, nothing having arrived in the inbox and the clock still 0.
C18_Witness ==
    \E m \in machines :
        /\ running[m]
        /\ stdout[m] = <<"Machine started", "Error receiving message">>
        /\ AtL(m, "accepting")
        /\ arrived[m] = <<>>
        /\ logical_clock[m] = 0
        /\ log_file[m] = <<>>

\* C19: with the running flag cleared by stop(), the Listener reports no
\* error: it prints no "Error receiving message" line and does not end by an
\* uncaught exception, wherever it is when the socket is closed.
C19_NoShutdownError ==
    [][\A m \in machines :
          ~running[m] =>
              /\ stdout'[m] # Append(stdout[m], "Error receiving message")
              /\ receive_thread'[m].pc = "crashed" =>
                     receive_thread[m].pc = "crashed"]_vars

\* C20: every tick does one kind of action, and processing comes first: a
\* tick that finds the inbox non-empty takes the process branch, one that
\* finds it empty takes the internal branch or a send branch, and a tick
\* makes only the steps of the branch it took.
C20_OneKindPerTick ==
    [][\A m \in machines :
          /\ (AtT(m, "tick") /\ run_thread'[m] # run_thread[m]) =>
                 IF message_queue[m] # <<>>
                 THEN /\ run_thread'[m].branch = "process"
                      /\ run_thread'[m].pc = "process_read"
                 ELSE /\ run_thread'[m].branch \in {"internal", "first", "second", "all"}
                      /\ run_thread'[m].pc \in {"internal_read", "send_msg"}
          /\ (run_process_read(m) \/ run_process_write(m)) =>
                 run_thread[m].branch = "process"
          /\ (run_internal_read(m) \/ run_internal_write(m)) =>
                 run_thread[m].branch = "internal"
          /\ (run_send_msg(m) \/ send_transmit(m) \/ send_fail(m)
                  \/ send_read(m) \/ send_write(m) \/ send_log_append(m)) =>
                 run_thread[m].branch \in {"first", "second", "all"}
          /\ run_log_append(m) =>
                 Last(log_file'[m]).event = run_thread[m].branch]_vars

\* The number of the DrawMax equally likely draws that select a branch.
DrawsOf(branch, p) ==
    Cardinality({action \in 1..DrawMax : Branch(action, p) = branch})

\* C21: at a tick with an empty inbox, for every internal-event probability
\* p (in hundredths) p of the 100 draws select the internal event, and the
\* three send actions are selected by equally many of the others.
C21_EvenSplit ==
    \A m \in machines :
        (AtT(m, "tick") /\ message_queue[m] = <<>>) =>
            /\ DrawsOf("internal", internal_event_prob) = internal_event_prob
            /\ DrawsOf("first", internal_event_prob)
                   = DrawsOf("second", internal_event_prob)
            /\ DrawsOf("second", internal_event_prob)
                   = DrawsOf("all", internal_event_prob)

\* C22: in a send-to-all over two peers whose first send succeeded, the
\* message built for the second peer carries a strictly higher clock value
\* than the one sent to the first.
C22_BroadcastIncreasing ==
    [][\A m \in machines :
          (run_send_msg(m) /\ SecondOfBroadcast(m)) =>
              run_thread'[m].message > Last(ConnLines(log_file[m])).message]_vars

\* C23: an accepted connection with a well-formed payload makes one clock
\* update, one inbox push of the raw carried value, and one receive record
\* that carries the clock this update wrote and an inbox size that counts
\* the pushed entry; any other connection appends no receive record.
C23_OneReceiveEvent ==
    [][\A m \in machines :
          /\ receive_put(m) =>
                 message_queue'[m] =
                     Append(message_queue[m], receive_thread[m].received_time)
          /\ receive_log_append(m) =>
                 /\ Last(log_file'[m]).event = "receive"
                 /\ Last(log_file'[m]).logical_clock =
                        ApplyReceived(receive_thread[m].reg,
                                      receive_thread[m].received_time)
                 /\ Last(log_file'[m]).queue_length >= 1
          /\ (receive_recv(m) /\ ~Decodable(receive_thread[m].data)) =>
                 /\ receive_thread'[m].pc \in {"loop", "except"}
                 /\ log_file' = log_file]_vars

\* C24: every record of an internal, send, receive or process event carries
\* the clock value that the store of the recorded action itself wrote.
C24_RecordCarriesOwnClock ==
    [][\A m \in machines :
          /\ receive_log_append(m) =>
                 Last(log_file'[m]).logical_clock =
                     ApplyReceived(receive_thread[m].reg,
                                   receive_thread[m].received_time)
          /\ (run_log_append(m) /\ run_thread[m].branch = "process") =>
                 Last(log_file'[m]).logical_clock =
                     ApplyReceived(run_thread[m].reg, run_thread[m].received_time)
          /\ (run_log_append(m) /\ run_thread[m].branch = "internal") =>
                 Last(log_file'[m]).logical_clock = ApplyLocal(run_thread[m].reg)
          /\ send_log_append(m) =>
                 Last(SendRecords(log_file'[m])).logical_clock =
                     ApplyLocal(run_thread[m].reg)]_vars

ReceiveRecords(log) == SelectSeq(log, LAMBDA r : r.event = "receive")
Min(a, b) == IF a <= b THEN a ELSE b

\* C25: in a fleet of two without other clients, the k-th message machine s
\* sent is the k-th machine r received; the clock of r's receive record for
\* it is strictly greater than the clock of s's send record for it.
C25_LamportCondition ==
    \A s \in machines : \A r \in machines \ {s} :
        (num_machines = 2) =>
            LET sent == SendRecords(log_file[s])
                received == ReceiveRecords(log_file[r])
            IN  \A k \in 1..Min(Len(sent), Len(received)) :
                    received[k].logical_clock > sent[k].logical_clock

\* C29: whenever the Listener is between connections (at the loop test, in
\* accept(), or ended), the connection it accepted last has been closed,
\* whatever its payload was.
C29_ConnectionClosed ==
    \A m \in machines :
        receive_thread[m].pc \in {"loop", "accept", "accepting", "done"}
            => receive_thread[m].client_socket # "open"

\* C26: every value waiting in the inbox of a machine is strictly smaller
\* than the machine's clock.
C26_InboxBelowClock ==
    \A m \in machines :
        \A k \in 1..Len(message_queue[m]) :
            message_queue[m][k] < logical_clock[m]

\* C27: the clock values of the event records of one machine's log are
\* strictly increasing in log order.
C27_LogStrictlyIncreasing ==
    \A m \in machines :
        \A k \in 2..Len(EventRecords(m)) :
            EventRecords(m)[k - 1].logical_clock < EventRecords(m)[k].logical_clock

\* C28: with the running flag cleared the Ticker begins no iteration: from
\* the loop test it only ends, so that after the clear it completes at most
\* the iteration it had begun.
C28_NoTickAfterClear ==
    [][\A m \in machines :
          (~running[m] /\ AtT(m, "loop")) =>
              /\ run_thread'[m].pc \in {"loop", "done"}
              /\ run_loop(m) => (run_thread'[m].pc = "done" /\ ticks' = ticks)]_vars

\* The flag has been cleared while the Ticker is inside an iteration, which
\* it goes on to complete.
C28_Witness ==
    \E m \in machines :
        /\ ~running[m]
        /\ caller[m] \in {"stop_close", "join_receive", "join_run"}
        /\ AtT(m, "internal_write")

====
